---- MODULE Spec2Model ----
(***************************************************************************)
(* A model of calcatime (src/calcatime.py): the relative timespan resolver *)
(* parse_timerange_tokens and the event grouping / totalling functions.    *)
(*                                                                         *)
(* A datetime at midnight is modelled by its proleptic Gregorian ordinal   *)
(* (datetime.toordinal: 0001-01-01 is day 1), a timedelta by a number of   *)
(* days, a str by a TLA+ string (tokens) or a tuple of one-character       *)
(* strings (titles, categories, patterns, the grouping attribute).         *)
(***************************************************************************)
EXTENDS Integers, Sequences, FiniteSets, TLC

VARIABLES pc, today, timespan_tokens, range,
          grouping_attr, events, grouped_events, hours_per_group, exception

vars == <<pc, today, timespan_tokens, range,
          grouping_attr, events, grouped_events, hours_per_group, exception>>

(***************************************************************************)
(* Bounds of the model.                                                    *)
(***************************************************************************)
MaxTokens == 3

AnchorYears == {2023, 2024}

MaxEvents == 3

MaxRest == 3

MaxCalendars == 2

TokenPool == {"today", "yesterday", "week", "month", "year", "decade",
              "mon", "wednesday", "wed", "last", "next", "Monday"}

(***************************************************************************)
(* datetime(year, month, day), timedelta and weekday() of the standard     *)
(* library, as far as the resolver uses them.                              *)
(***************************************************************************)
MINYEAR == 1

MAXYEAR == 9999

IsLeap(y) == (y % 4 = 0) /\ ((y % 100 # 0) \/ (y % 400 = 0))

DaysInMonth(y, m) ==
    IF m = 2 THEN (IF IsLeap(y) THEN 29 ELSE 28)
    ELSE IF m \in {4, 6, 9, 11} THEN 30 ELSE 31

DaysBeforeYear(y) ==
    (y - 1) * 365 + ((y - 1) \div 4) - ((y - 1) \div 100) + ((y - 1) \div 400)

RECURSIVE DaysBeforeMonth(_, _)
DaysBeforeMonth(y, m) ==
    IF m <= 1 THEN 0 ELSE DaysBeforeMonth(y, m - 1) + DaysInMonth(y, m - 1)

\* datetime(y, m, d) raises ValueError outside these ranges
ValidDate(y, m, d) ==
    /\ y >= MINYEAR /\ y <= MAXYEAR
    /\ m >= 1 /\ m <= 12
    /\ d >= 1 /\ d <= DaysInMonth(y, m)

\* the ordinal of datetime(y, m, d, 0, 0)
Datetime(y, m, d) == DaysBeforeYear(y) + DaysBeforeMonth(y, m) + d

\* a week that starts on Sunday
WeekdaySundayFirst(ord) == ord % 7

\* datetime.weekday(): Monday is 0, Sunday is 6
Weekday(ord) == (ord + 6) % 7

(***************************************************************************)
(* calendar.day_name, calendar.day_abbr and str.lower on them.             *)
(***************************************************************************)
day_name == <<"Monday", "Tuesday", "Wednesday", "Thursday", "Friday",
              "Saturday", "Sunday">>

day_abbr == <<"Mon", "Tue", "Wed", "Thu", "Fri", "Sat", "Sun">>

\* the names compared as the calendar module spells them
str_lower_identity(s) == s

str_lower(s) ==
    CASE s = "Monday" -> "monday"       [] s = "Mon" -> "mon"
      [] s = "Tuesday" -> "tuesday"     [] s = "Tue" -> "tue"
      [] s = "Wednesday" -> "wednesday" [] s = "Wed" -> "wed"
      [] s = "Thursday" -> "thursday"   [] s = "Thu" -> "thu"
      [] s = "Friday" -> "friday"       [] s = "Fri" -> "fri"
      [] s = "Saturday" -> "saturday"   [] s = "Sat" -> "sat"
      [] s = "Sunday" -> "sunday"       [] s = "Sun" -> "sun"
      [] OTHER -> s

\* zip(map(str.lower, day_name), map(str.lower, day_abbr)), enumerated from 0
day_names(idx) == {str_lower(day_name[idx + 1]), str_lower(day_abbr[idx + 1])}

(***************************************************************************)
(* list.count and the `in` operator on a list of tokens.                   *)
(***************************************************************************)
\* a token counted once however often it is given
CountOnce(tokens, t) == IF \E i \in DOMAIN tokens : tokens[i] = t THEN 1 ELSE 0

RECURSIVE Count(_, _)
Count(tokens, t) ==
    IF tokens = <<>> THEN 0
    ELSE (IF Head(tokens) = t THEN 1 ELSE 0) + Count(Tail(tokens), t)

\* only the first token looked at
InFirst(t, tokens) == tokens # <<>> /\ tokens[1] = t

In(t, tokens) == \E i \in DOMAIN tokens : tokens[i] = t

(***************************************************************************)
(* The outcome of a call: a (start, end) pair or the exception raised.     *)
(***************************************************************************)
Returned(s, e) == [error |-> "none", start |-> s, end |-> e]

Raised(exc) == [error |-> exc, start |-> 0, end |-> 0]

NoRange == [error |-> "pending", start |-> 0, end |-> 0]

\* the loop over the week days: the first idx whose name or abbreviation
\* is among the tokens decides
RECURSIVE WeekDays(_, _, _, _)
WeekDays(idx, tokens, week_start, offset) ==
    IF idx > 6 THEN Raised("Can not determine time span.")
    ELSE IF \E x \in day_names(idx) : In(x, tokens)
         THEN Returned(week_start + (idx + offset),
                       week_start + (idx + 1 + offset))
         ELSE WeekDays(idx + 1, tokens, week_start, offset)

MonthBranch(now, last_count, next_count) ==
    LET month_index0 == now.month + (-last_count + next_count)
        month_index  == IF month_index0 >= 1 THEN month_index0 ELSE 12
    IN  IF ~ValidDate(now.year, month_index, 1) THEN Raised("ValueError")
        ELSE IF ~ValidDate(now.year, month_index + 1, 1)
             THEN Raised("ValueError")
        ELSE Returned(Datetime(now.year, month_index, 1),
                      Datetime(now.year, month_index + 1, 1) + (-1))

YearBranch(now, last_count, next_count) ==
    LET year_number == now.year + (-last_count + next_count)
    IN  IF ~ValidDate(year_number, 1, 1) THEN Raised("ValueError")
        ELSE IF ~ValidDate(year_number + 1, 1, 1) THEN Raised("ValueError")
        ELSE Returned(Datetime(year_number, 1, 1),
                      Datetime(year_number + 1, 1, 1) + (-1))

parse_timerange_tokens(now, tokens) ==
    LET today_start == Datetime(now.year, now.month, now.day)
        today_end   == today_start + 1
        week_start  == today_start - Weekday(today_start)
        last_count  == Count(tokens, "last")
        last_offset == -7 * last_count
        next_count  == Count(tokens, "next")
        next_offset == 7 * next_count
        offset      == last_offset + next_offset
    IN  IF In("today", tokens)
          THEN Returned(today_start + offset, today_end + offset)
        ELSE IF In("yesterday", tokens)
          THEN Returned(today_start + (-1 + offset), today_end + (-1 + offset))
        ELSE IF In("week", tokens)
          THEN Returned(week_start + offset, week_start + (7 + offset))
        ELSE IF In("month", tokens)
          THEN MonthBranch(now, last_count, next_count)
        ELSE IF In("year", tokens)
          THEN YearBranch(now, last_count, next_count)
        ELSE IF In("decade", tokens) THEN Raised("NotImplementedError")
        ELSE IF In("century", tokens) THEN Raised("NotImplementedError")
        ELSE IF In("millennium", tokens) THEN Raised("NotImplementedError")
        ELSE WeekDays(0, tokens, week_start, offset)

(***************************************************************************)
(* Python float (IEEE 754 binary64) as far as durations need it.  A float  *)
(* is modelled exactly, as a fixed-point number written in limbs of        *)
(* LimbBits bits, most significant first: one limb before the binary point *)
(* and the others after it.  Every result is rounded to FloatMantDig       *)
(* significant bits, to nearest, ties to even.                             *)
(***************************************************************************)
FloatMantDig == 53

LimbBits == 15

LimbBase == 2 ^ LimbBits

FloatZero == <<0, 0, 0, 0, 0, 0>>

\* bit k of the number x, bit 0 the least significant
BitAt(x, k) == (x[Len(x) - (k \div LimbBits)] \div (2 ^ (k % LimbBits))) % 2

\* the number of significant bits of x
BitLength(x) ==
    LET nonzero == {i \in DOMAIN x : x[i] # 0}
    IN  IF nonzero = {} THEN 0
        ELSE LET top == CHOOSE i \in nonzero : \A j \in nonzero : i <= j
             IN  (Len(x) - top) * LimbBits
                 + (CHOOSE n \in 1..LimbBits :
                       2 ^ (n - 1) <= x[top] /\ x[top] < 2 ^ n)

\* some bit below bit k of x is set
LowBitsSet(x, k) ==
    \/ \E i \in DOMAIN x : (Len(x) - i) < (k \div LimbBits) /\ x[i] # 0
    \/ x[Len(x) - (k \div LimbBits)] % (2 ^ (k % LimbBits)) # 0

\* x with the bits below bit k cleared
ClearLow(x, k) ==
    [i \in DOMAIN x |->
       IF (Len(x) - i) < (k \div LimbBits) THEN 0
       ELSE IF (Len(x) - i) = (k \div LimbBits)
            THEN x[i] - (x[i] % (2 ^ (k % LimbBits)))
       ELSE x[i]]

\* the number 2^k
BitOnly(x, k) ==
    [i \in DOMAIN x |->
       IF (Len(x) - i) = (k \div LimbBits) THEN 2 ^ (k % LimbBits) ELSE 0]

\* the exact sum of two numbers: a limb takes a carry when a limb right of
\* it overflows and every limb between passes the carry on
AddLimbs(a, b) ==
    [i \in DOMAIN a |->
       LET carry == IF \E j \in (i + 1)..Len(a) :
                          /\ a[j] + b[j] >= LimbBase
                          /\ \A k \in (i + 1)..(j - 1) :
                                a[k] + b[k] = LimbBase - 1
                    THEN 1 ELSE 0
       IN  (a[i] + b[i] + carry) % LimbBase]

\* round x to FloatMantDig significant bits: nearest, ties to even; `more`
\* tells that the exact value is a little above x
RoundToNearestEven(x, more) ==
    LET drop == BitLength(x) - FloatMantDig
    IN  IF drop <= 0 THEN x
        ELSE LET guard  == BitAt(x, drop - 1)
                 sticky == more \/ LowBitsSet(x, drop - 1)
                 kept   == ClearLow(x, drop)
             IN  IF guard = 1 /\ (sticky \/ BitAt(x, drop) = 1)
                 THEN AddLimbs(kept, BitOnly(x, drop))
                 ELSE kept

\* float + float
FloatAdd(a, b) == RoundToNearestEven(AddLimbs(a, b), FALSE)

\* long division: `count` more limbs of rem / den after the point, and the
\* remainder left
RECURSIVE LongDivision(_, _, _)
LongDivision(rem, den, count) ==
    IF count = 0 THEN [limbs |-> <<>>, rem |-> rem]
    ELSE LET rest == LongDivision((rem * LimbBase) % den, den, count - 1)
         IN  [limbs |-> <<(rem * LimbBase) \div den>> \o rest.limbs,
              rem   |-> rest.rem]

\* int / int (true division) for 0 <= num, 0 < den
FloatDiv(num, den) ==
    LET frac == LongDivision(num % den, den, Len(FloatZero) - 1)
    IN  RoundToNearestEven(<<num \div den>> \o frac.limbs, frac.rem # 0)

(***************************************************************************)
(* str methods and re.search, on strings written as tuples of characters.  *)
(***************************************************************************)
UpperCase == <<"A", "B", "C", "D", "E", "F", "G", "H", "I", "J", "K", "L", "M",
               "N", "O", "P", "Q", "R", "S", "T", "U", "V", "W", "X", "Y", "Z">>

LowerCase == <<"a", "b", "c", "d", "e", "f", "g", "h", "i", "j", "k", "l", "m",
               "n", "o", "p", "q", "r", "s", "t", "u", "v", "w", "x", "y", "z">>

CaseFold(c) ==
    IF \E i \in DOMAIN UpperCase : UpperCase[i] = c
    THEN LowerCase[CHOOSE i \in DOMAIN UpperCase : UpperCase[i] = c]
    ELSE c

StartsWith(s, prefix) ==
    Len(s) >= Len(prefix) /\ SubSeq(s, 1, Len(prefix)) = prefix

\* s.split(sep): the pieces of s between the occurrences of sep
RECURSIVE Split(_, _)
Split(s, sep) ==
    LET at == {i \in DOMAIN s : s[i] = sep}
    IN  IF at = {} THEN <<s>>
        ELSE LET i == CHOOSE i \in at : \A j \in at : i <= j
             IN  <<SubSeq(s, 1, i - 1)>> \o Split(SubSeq(s, i + 1, Len(s)), sep)

\* the pattern from its character k on matched against the token at pos:
\* the position after the match, or -1.  '^' matches at the start of the
\* token only, every other character of the model's patterns is a literal,
\* compared without regard to case (re.IGNORECASE)
RECURSIVE MatchFrom(_, _, _, _)
MatchFrom(pattern, k, token, pos) ==
    IF k > Len(pattern) THEN pos
    ELSE IF pattern[k] = "^"
         THEN (IF pos = 0 THEN MatchFrom(pattern, k + 1, token, pos) ELSE -1)
    ELSE IF pos < Len(token) /\ CaseFold(token[pos + 1]) = CaseFold(pattern[k])
         THEN MatchFrom(pattern, k + 1, token, pos + 1)
    ELSE -1

NoMatch == [matched |-> FALSE, group |-> <<>>]

\* re.search(pattern, token, flags=re.IGNORECASE): the leftmost match
re_search(pattern, token) ==
    LET starts == {i \in 0..Len(token) : MatchFrom(pattern, 1, token, i) >= 0}
    IN  IF starts = {} THEN NoMatch
        ELSE LET i == CHOOSE i \in starts : \A j \in starts : i <= j
             IN  [matched |-> TRUE,
                  group   |-> SubSeq(token, i + 1, MatchFrom(pattern, 1, token, i))]

(***************************************************************************)
(* Events.  A provider item has a subject, a start, an end (in seconds)    *)
(* and categories; get_exchange_events turns it into a CalendarEvent.      *)
(***************************************************************************)
SecondsPerDay == 86400

\* timedelta.seconds: the seconds left once the whole days are taken out
TimedeltaSeconds(delta) == delta % SecondsPerDay

CalendarEvent(item) ==
    [title      |-> item.subject,
     start      |-> item.start,
     end        |-> item.end,
     duration   |-> FloatDiv(TimedeltaSeconds(item.end - item.start), 3600),
     categories |-> item.categories]

get_exchange_events(items) == [i \in DOMAIN items |-> CalendarEvent(items[i])]

\* a str iterated over: its one-character strings
Characters(str) == [i \in DOMAIN str |-> <<str[i]>>]

\* the events of one Google calendar: all-day events (an end with a 'date')
\* are left out, the calendar id serves as categories
RECURSIVE GcalEventLoop(_, _)
GcalEventLoop(cal_id, gcal_events) ==
    IF gcal_events = <<>> THEN <<>>
    ELSE LET event == Head(gcal_events)
         IN  (IF ~event.all_day
              THEN << [title      |-> event.summary,
                       start      |-> event.start,
                       end        |-> event.end,
                       duration   |-> FloatDiv(TimedeltaSeconds(event.end - event.start),
                                               3600),
                       categories |-> Characters(cal_id)] >>
              ELSE <<>>)
             \o GcalEventLoop(cal_id, Tail(gcal_events))

RECURSIVE get_google_events(_)
get_google_events(calendars) ==
    IF calendars = <<>> THEN <<>>
    ELSE GcalEventLoop(Head(calendars).id, Head(calendars).items)
         \o get_google_events(Tail(calendars))

(***************************************************************************)
(* Dict[str, List[CalendarEvent]]: the keys in insertion order, each with  *)
(* its list.                                                               *)
(***************************************************************************)
HasKey(d, k) == \E i \in DOMAIN d : d[i].key = k

\* d[k].append(event) if k in d else d[k] = [event]
AppendTo(d, k, event) ==
    IF HasKey(d, k)
    THEN [i \in DOMAIN d |->
            IF d[i].key = k
            THEN [key |-> k, events |-> Append(d[i].events, event)]
            ELSE d[i]]
    ELSE Append(d, [key |-> k, events |-> <<event>>])

RECURSIVE TitleLoop(_, _)
TitleLoop(evs, grouped) ==
    IF evs = <<>> THEN grouped
    ELSE TitleLoop(Tail(evs), AppendTo(grouped, Head(evs).title, Head(evs)))

group_by_title(evs) == TitleLoop(evs, <<>>)

unknown_group == <<"-", "-", "-">>

\* the loop over the categories left after the first one
CategoryFirstOnly(event, cats, grouped) ==
    IF cats = <<>> THEN grouped ELSE AppendTo(grouped, Head(cats), event)

RECURSIVE CategoryInnerLoop(_, _, _)
CategoryInnerLoop(event, cats, grouped) ==
    IF cats = <<>> THEN grouped
    ELSE CategoryInnerLoop(event, Tail(cats),
                           AppendTo(grouped, Head(cats), event))

RECURSIVE CategoryLoop(_, _)
CategoryLoop(evs, grouped) ==
    IF evs = <<>> THEN grouped
    ELSE LET event == Head(evs)
         IN  CategoryLoop(Tail(evs),
                 IF event.categories # <<>>
                 THEN CategoryInnerLoop(event, event.categories, grouped)
                 ELSE AppendTo(grouped, unknown_group, event))

group_by_category(evs) == CategoryLoop(evs, <<>>)

\* the loop over the target tokens without its break
RECURSIVE PatternInnerNoBreak(_, _, _, _)
PatternInnerNoBreak(event, target_tokens, pattern, grouped) ==
    IF target_tokens = <<>> THEN grouped
    ELSE LET match == re_search(pattern, Head(target_tokens))
         IN  PatternInnerNoBreak(event, Tail(target_tokens), pattern,
                 IF match.matched THEN AppendTo(grouped, match.group, event)
                 ELSE grouped)

\* the loop over the target tokens of one event, left at the first match
RECURSIVE PatternInnerLoop(_, _, _, _)
PatternInnerLoop(event, target_tokens, pattern, grouped) ==
    IF target_tokens = <<>> THEN grouped
    ELSE LET match == re_search(pattern, Head(target_tokens))
         IN  IF match.matched
             THEN AppendTo(grouped, match.group, event)
             ELSE PatternInnerLoop(event, Tail(target_tokens), pattern, grouped)

RECURSIVE PatternLoop(_, _, _, _)
PatternLoop(evs, pattern, attr, grouped) ==
    IF evs = <<>> THEN grouped
    ELSE LET event == Head(evs)
             target_tokens ==
                 IF attr = "title" THEN <<event.title>>
                 ELSE IF attr = "category" THEN event.categories
                 ELSE <<>>
         IN  PatternLoop(Tail(evs), pattern, attr,
                 PatternInnerLoop(event, target_tokens, pattern, grouped))

group_by_pattern(evs, pattern, attr) == PatternLoop(evs, pattern, attr, <<>>)

Grouped(g) == [error |-> "none", grouped |-> g]

\* `_, pattern = group_attr.split(':')`, then the grouping by the pattern
SplitAndGroup(evs, group_attr, attr) ==
    LET parts == Split(group_attr, ":")
    IN  IF Len(parts) # 2 THEN [error |-> "ValueError", grouped |-> <<>>]
        ELSE IF parts[2] # <<>>
             THEN Grouped(group_by_pattern(evs, parts[2], attr))
        ELSE Grouped(<<>>)

category_str == <<"c", "a", "t", "e", "g", "o", "r", "y">>

title_str == <<"t", "i", "t", "l", "e">>

group_events(evs, group_attr) ==
    IF evs = <<>> THEN Grouped(<<>>)
    ELSE IF StartsWith(group_attr, category_str \o <<":">>)
         THEN SplitAndGroup(evs, group_attr, "category")
    ELSE IF group_attr = category_str THEN Grouped(group_by_category(evs))
    ELSE IF StartsWith(group_attr, title_str \o <<":">>)
         THEN SplitAndGroup(evs, group_attr, "title")
    ELSE IF group_attr = title_str THEN Grouped(group_by_title(evs))
    ELSE Grouped(<<>>)

\* the total assigned instead of added to
TotalLastOnly(evs, total_duration) ==
    IF evs = <<>> THEN total_duration ELSE evs[Len(evs)].duration

\* total_duration = 0, then total_duration += event.duration per event
RECURSIVE TotalLoop(_, _)
TotalLoop(evs, total_duration) ==
    IF evs = <<>> THEN total_duration
    ELSE TotalLoop(Tail(evs), FloatAdd(total_duration, Head(evs).duration))

cal_total_duration(grouped) ==
    [i \in DOMAIN grouped |->
       [key |-> grouped[i].key, total |-> TotalLoop(grouped[i].events, FloatZero)]]

(***************************************************************************)
(* The resolver as a state machine: the command line supplies the tokens   *)
(* one at a time, then parse_configs calls parse_timerange_tokens.         *)
(***************************************************************************)
Anchors ==
    {d \in [year : AnchorYears, month : 1..12, day : 1..31] :
        d.day \in {1, DaysInMonth(d.year, d.month)}}

AggrIdle ==
    /\ grouping_attr = <<>>
    /\ events = <<>>
    /\ grouped_events = <<>>
    /\ hours_per_group = <<>>
    /\ exception = "none"

InitResolve ==
    /\ pc = "args"
    /\ today \in Anchors
    /\ timespan_tokens = <<>>
    /\ range = NoRange
    /\ AggrIdle

ReadToken ==
    /\ pc = "args"
    /\ Len(timespan_tokens) < MaxTokens
    /\ \E t \in TokenPool : timespan_tokens' = Append(timespan_tokens, t)
    /\ UNCHANGED <<pc, today, range, grouping_attr, events, grouped_events,
                   hours_per_group, exception>>

ParseTimerangeTokens ==
    /\ pc = "args"
    /\ range' = parse_timerange_tokens(today, timespan_tokens)
    /\ pc' = IF range'.error = "none" THEN "resolved" ELSE "failed"
    /\ UNCHANGED <<today, timespan_tokens, grouping_attr, events,
                   grouped_events, hours_per_group, exception>>

NextResolve == ReadToken \/ ParseTimerangeTokens

SpecResolve == InitResolve /\ [][NextResolve]_vars

(***************************************************************************)
(* The aggregation as a state machine, after the time span is resolved:    *)
(* collect_events builds the events from the items of the provider,        *)
(* group_events groups them by configs.grouping_attr, cal_total_duration   *)
(* totals the groups.                                                      *)
(***************************************************************************)
ItemPool ==
    { [subject |-> <<"A", "b">>, start |-> 0, end |-> 1800,
       categories |-> <<>>],
      [subject |-> <<"b", "a">>, start |-> 0, end |-> 1080,
       categories |-> << <<"a">>, <<"b">> >>],
      [subject |-> <<"a", ":", "b">>, start |-> 0, end |-> 90000,
       categories |-> << <<"-", "-", "-">>, <<"-", "-", "-">> >>],
      [subject |-> <<"a", "b">>, start |-> 1800, end |-> 2160,
       categories |-> << <<"A">>, <<"a">> >>] }

RestAlphabet == {":", "a", "^"}

GroupingAttrs ==
    {prefix \o rest :
        prefix \in {category_str, title_str},
        rest \in UNION {[1..n -> RestAlphabet] : n \in 0..MaxRest}}

InitGroup ==
    /\ pc = "resolved"
    /\ today = [year |-> 2024, month |-> 2, day |-> 29]
    /\ timespan_tokens = <<"today">>
    /\ range = parse_timerange_tokens(today, timespan_tokens)
    /\ grouping_attr \in GroupingAttrs
    /\ events = <<>>
    /\ grouped_events = <<>>
    /\ hours_per_group = <<>>
    /\ exception = "none"

CalendarPool ==
    { [id    |-> <<"a", "b">>,
       items |-> << [summary |-> <<"a", "b">>, start |-> 3600, end |-> 176400,
                     all_day |-> FALSE],
                    [summary |-> <<"B">>, start |-> 0, end |-> 86400,
                     all_day |-> TRUE] >>],
      [id    |-> <<"b">>,
       items |-> << [summary |-> <<"A", "b">>, start |-> 0, end |-> 5400,
                     all_day |-> FALSE] >>] }

CollectEvents ==
    /\ pc = "resolved"
    /\ \/ \E n \in 0..MaxEvents :
            \E items \in [1..n -> ItemPool] :
               events' = get_exchange_events(items)
       \/ \E n \in 0..MaxCalendars :
            \E calendars \in [1..n -> CalendarPool] :
               events' = get_google_events(calendars)
    /\ pc' = "collected"
    /\ UNCHANGED <<today, timespan_tokens, range, grouping_attr,
                   grouped_events, hours_per_group, exception>>

GroupEvents ==
    /\ pc = "collected"
    /\ LET result == group_events(events, grouping_attr)
       IN  /\ grouped_events' = result.grouped
           /\ exception' = result.error
           /\ pc' = IF result.error = "none" THEN "grouped" ELSE "failed"
    /\ UNCHANGED <<today, timespan_tokens, range, grouping_attr, events,
                   hours_per_group>>

CalTotalDuration ==
    /\ pc = "grouped"
    /\ hours_per_group' = cal_total_duration(grouped_events)
    /\ pc' = "done"
    /\ UNCHANGED <<today, timespan_tokens, range, grouping_attr, events,
                   grouped_events, exception>>

NextGroup == CollectEvents \/ GroupEvents \/ CalTotalDuration

SpecGroup == InitGroup /\ [][NextGroup]_vars

(***************************************************************************)
(* Vocabulary of the properties of the resolver.                           *)
(***************************************************************************)
Parsed == pc \in {"resolved", "failed"}

TokenSet == {timespan_tokens[i] : i \in DOMAIN timespan_tokens}

Occurrences(t) == Cardinality({i \in DOMAIN timespan_tokens : timespan_tokens[i] = t})

SpanTriggers == {"today", "yesterday", "week", "month", "year"}

ReservedTriggers == {"decade", "century", "millennium"}

WeekdayIndex ==
    [t \in {"monday", "mon", "tuesday", "tue", "wednesday", "wed", "thursday",
            "thu", "friday", "fri", "saturday", "sat", "sunday", "sun"} |->
       CASE t \in {"monday", "mon"} -> 0
         [] t \in {"tuesday", "tue"} -> 1
         [] t \in {"wednesday", "wed"} -> 2
         [] t \in {"thursday", "thu"} -> 3
         [] t \in {"friday", "fri"} -> 4
         [] t \in {"saturday", "sat"} -> 5
         [] t \in {"sunday", "sun"} -> 6]

WeekdayTokens == DOMAIN WeekdayIndex

AllTriggers == SpanTriggers \cup ReservedTriggers \cup WeekdayTokens

Shifters == {"last", "next"}

\* the anchor day and the Monday of its week, from the calendar alone:
\* ordinal 1 (0001-01-01) is a Monday
AnchorOrdinal == Datetime(today.year, today.month, today.day)

AnchorMonday ==
    CHOOSE w \in (AnchorOrdinal - 6)..AnchorOrdinal : w % 7 = 1

\* the number of days the 'last'/'next' tokens of the list shift by
ShiftDays == 7 * (Occurrences("next") - Occurrences("last"))

DaysInYear(y) == IF IsLeap(y) THEN 366 ELSE 365

IsMonthStart(ord) ==
    \E y \in {today.year - 1, today.year, today.year + 1}, m \in 1..12 :
        Datetime(y, m, 1) = ord

\* C1: a list with exactly one of today, yesterday, week, month, year and no
\* last/next resolves to an interval of exactly 1, 1, 7, days-of-the-month,
\* days-of-the-year days.
C1_SpanLengths ==
    (/\ Parsed
     /\ Cardinality(TokenSet \cap SpanTriggers) = 1
     /\ \A t \in SpanTriggers : Occurrences(t) <= 1
     /\ TokenSet \cap Shifters = {})
    => /\ range.error = "none"
       /\ range.end - range.start =
            (CASE "today" \in TokenSet -> 1
               [] "yesterday" \in TokenSet -> 1
               [] "week" \in TokenSet -> 7
               [] "month" \in TokenSet -> DaysInMonth(today.year, today.month)
               [] "year" \in TokenSet -> DaysInYear(today.year))

\* C2: from one anchor, ['month'], ['last','month'] and ['next','month'] all
\* resolve, to three disjoint intervals that each start on the first day of
\* a month, in the order last < current < next.
C2_MonthTriple ==
    (Parsed /\ timespan_tokens = <<"month">>)
    => LET cur == range
           lst == parse_timerange_tokens(today, <<"last", "month">>)
           nxt == parse_timerange_tokens(today, <<"next", "month">>)
       IN  /\ cur.error = "none" /\ lst.error = "none" /\ nxt.error = "none"
           /\ IsMonthStart(lst.start)
           /\ IsMonthStart(cur.start)
           /\ IsMonthStart(nxt.start)
           /\ lst.start < lst.end /\ lst.end <= cur.start
           /\ cur.start < cur.end /\ cur.end <= nxt.start
           /\ nxt.start < nxt.end

\* C3: a day/week trigger T with k 'last' and j 'next' tokens, in any
\* positions, resolves to the interval of [T] alone moved by 7*(j-k) days.
C3_ShiftAdditive ==
    Parsed =>
        LET core == SelectSeq(timespan_tokens, LAMBDA t : t \notin Shifters)
        IN  (Len(core) = 1
             /\ core[1] \in {"today", "yesterday", "week"} \cup WeekdayTokens)
            => LET plain == parse_timerange_tokens(today, core)
                   shift == ShiftDays
               IN  /\ plain.error = "none"
                   /\ range.error = "none"
                   /\ range.start = plain.start + shift
                   /\ range.end = plain.end + shift

C3_Witness ==
    /\ Parsed
    /\ timespan_tokens = <<"last", "week", "last">>
    /\ range.start = AnchorMonday - 14
    /\ range.end = AnchorMonday - 7

\* C4: the call fails with 'Can not determine time span.' exactly when the
\* list holds no trigger token, and then returns no interval.
C4_UnresolvedIffNoTrigger ==
    Parsed =>
        /\ (TokenSet \cap AllTriggers = {})
             <=> (range.error = "Can not determine time span.")
        /\ (TokenSet \cap AllTriggers = {}) => pc = "failed"

C4_Witness ==
    /\ Parsed
    /\ timespan_tokens = <<"last", "Monday", "next">>
    /\ range.error = "Can not determine time span."

\* C9: with no higher-precedence trigger and no last/next, a weekday name or
\* abbreviation resolves to the one day weekStart + idx of the anchor's
\* Monday-based week; name and abbreviation agree.
C9_WeekdayInterval ==
    (/\ Parsed
     /\ TokenSet \cap (SpanTriggers \cup ReservedTriggers \cup Shifters) = {}
     /\ TokenSet \cap WeekdayTokens # {})
    => LET idx == CHOOSE i \in 0..6 :
                    /\ \E t \in TokenSet \cap WeekdayTokens : WeekdayIndex[t] = i
                    /\ \A t \in TokenSet \cap WeekdayTokens : WeekdayIndex[t] >= i
       IN  range = Returned(AnchorMonday + idx, AnchorMonday + idx + 1)

C9_Witness ==
    /\ Parsed
    /\ timespan_tokens = <<"wednesday">>
    /\ Weekday(AnchorOrdinal) = 6
    /\ range.start = AnchorMonday + 2
    /\ range.end = AnchorMonday + 3

\* C10: the outcome is decided by the highest-precedence trigger present,
\* whatever the order of the tokens: today, yesterday, week, month, year,
\* decade/century/millennium (NotImplementedError), then the weekdays.
Precedence == <<"today", "yesterday", "week", "month", "year", "decade",
                "century", "millennium", "monday", "mon", "tuesday", "tue",
                "wednesday", "wed", "thursday", "thu", "friday", "fri",
                "saturday", "sat", "sunday", "sun">>

Deciding ==
    LET present == {i \in DOMAIN Precedence : Precedence[i] \in TokenSet}
    IN  IF present = {} THEN <<>>
        ELSE <<Precedence[CHOOSE i \in present : \A j \in present : i <= j]>>

C10_PrecedenceDecides ==
    Parsed =>
        LET deciding == Deciding
        IN  /\ range = parse_timerange_tokens(today,
                         deciding \o SelectSeq(timespan_tokens,
                                               LAMBDA t : t \in Shifters))
            /\ (deciding # <<>> /\ deciding[1] \in ReservedTriggers)
                 <=> (range.error = "NotImplementedError")
            /\ (deciding = <<"week">>)
                 => range = Returned(AnchorMonday + ShiftDays,
                                     AnchorMonday + 7 + ShiftDays)
            /\ (deciding = <<"today">>)
                 => range = Returned(AnchorOrdinal + ShiftDays,
                                     AnchorOrdinal + 1 + ShiftDays)

C10_Witness ==
    /\ Parsed
    /\ timespan_tokens = <<"mon", "decade", "week">>
    /\ range = Returned(AnchorMonday, AnchorMonday + 7)

(***************************************************************************)
(* Vocabulary of the properties of the aggregation.                        *)
(***************************************************************************)
GroupingDone == pc \in {"grouped", "done"}

Elements(seq) == {seq[i] : i \in DOMAIN seq}

GroupKeys == {grouped_events[i].key : i \in DOMAIN grouped_events}

GroupOf(k) ==
    grouped_events[CHOOSE i \in DOMAIN grouped_events : grouped_events[i].key = k].events

Copies(n, e) == [i \in 1..n |-> e]

\* the events taken in input order, the i-th as often as times[i] says
RECURSIVE Repeated(_, _)
Repeated(evs, times) ==
    IF evs = <<>> THEN <<>>
    ELSE Copies(Head(times), Head(evs)) \o Repeated(Tail(evs), Tail(times))

\* C5: group_by_category puts an event into the group of each of its
\* categories and into no other, an event without categories into '---'
\* alone; the events of a group are in input order.
C5_CategoryFanOut ==
    (GroupingDone /\ grouping_attr = category_str)
    => LET sentinel == <<"-", "-", "-">>
           InGroup(k, e) ==
               IF e.categories = <<>> THEN (IF k = sentinel THEN 1 ELSE 0)
               ELSE Cardinality({c \in DOMAIN e.categories : e.categories[c] = k})
       IN  /\ GroupKeys =
                UNION {Elements(events[j].categories) : j \in DOMAIN events}
                \cup (IF \E j \in DOMAIN events : events[j].categories = <<>>
                      THEN {sentinel} ELSE {})
           /\ Cardinality(GroupKeys) = Len(grouped_events)
           /\ \A k \in GroupKeys :
                GroupOf(k) =
                  Repeated(events, [j \in DOMAIN events |-> InGroup(k, events[j])])

C5_Witness ==
    /\ pc = "grouped"
    /\ grouping_attr = category_str
    /\ Len(events) = 2
    /\ events[1].categories = << <<"a">>, <<"b">> >>
    /\ events[2].categories = <<>>
    /\ grouped_events = << [key |-> <<"a">>, events |-> <<events[1]>>],
                           [key |-> <<"b">>, events |-> <<events[1]>>],
                           [key |-> <<"-", "-", "-">>, events |-> <<events[2]>>] >>

\* the grouping attribute is '<attr>:<pattern>' with a pattern free of ':'
PatternGrouping(attr_str) ==
    /\ StartsWith(grouping_attr, attr_str \o <<":">>)
    /\ Len(grouping_attr) > Len(attr_str) + 1
    /\ \A i \in (Len(attr_str) + 2)..Len(grouping_attr) : grouping_attr[i] # ":"

PatternOf(attr_str) ==
    SubSeq(grouping_attr, Len(attr_str) + 2, Len(grouping_attr))

Candidates(e) ==
    IF PatternGrouping(title_str) THEN <<e.title>> ELSE e.categories

ThePattern ==
    IF PatternGrouping(title_str) THEN PatternOf(title_str)
    ELSE PatternOf(category_str)

Matching(e) ==
    {i \in DOMAIN Candidates(e) : re_search(ThePattern, Candidates(e)[i]).matched}

\* the key of the first candidate token the pattern matches
FirstKey(e) ==
    re_search(ThePattern,
              Candidates(e)[CHOOSE i \in Matching(e) : \A j \in Matching(e) : i <= j]).group

Folded(str) == [i \in DOMAIN str |-> CaseFold(str[i])]

\* C6: group_by_pattern puts an event into one group at most, the one of
\* the matched substring of its first matching candidate token; an event
\* without a matching token is in no group.
C6_FirstMatchOnly ==
    (/\ GroupingDone
     /\ events # <<>>
     /\ PatternGrouping(title_str) \/ PatternGrouping(category_str))
    => /\ GroupKeys = {FirstKey(events[j]) :
                          j \in {i \in DOMAIN events : Matching(events[i]) # {}}}
       /\ Cardinality(GroupKeys) = Len(grouped_events)
       /\ \A k \in GroupKeys :
            /\ GroupOf(k) =
                 SelectSeq(events,
                           LAMBDA e : Matching(e) # {} /\ FirstKey(e) = k)
            \* the key is a piece of a token that the pattern spells
            /\ Folded(k) = Folded(SelectSeq(ThePattern, LAMBDA c : c # "^"))
            /\ \E j \in DOMAIN events :
                 \E t \in Elements(Candidates(events[j])) :
                    \E from \in 1..(Len(t) - Len(k) + 1) :
                       k = SubSeq(t, from, from + Len(k) - 1)

C6_Witness ==
    /\ pc = "grouped"
    /\ grouping_attr = category_str \o <<":", "a">>
    /\ Len(events) = 2
    /\ events[1].categories = << <<"A">>, <<"a">> >>
    /\ events[2].categories = <<>>
    /\ grouped_events = << [key |-> <<"A">>, events |-> <<events[1]>>] >>

\* the durations of a list of events added up one after the other
RECURSIVE SumUpTo(_, _)
SumUpTo(evs, n) ==
    IF n = 0 THEN FloatZero ELSE FloatAdd(SumUpTo(evs, n - 1), evs[n].duration)

Permuted(evs, p) == [i \in DOMAIN evs |-> evs[p[i]]]

KeysAndSums ==
    /\ Len(hours_per_group) = Len(grouped_events)
    /\ \A i \in DOMAIN grouped_events :
         /\ hours_per_group[i].key = grouped_events[i].key
         /\ hours_per_group[i].total =
              SumUpTo(grouped_events[i].events, Len(grouped_events[i].events))

OrderFree(i) ==
    \A p \in Permutations(DOMAIN grouped_events[i].events) :
        SumUpTo(Permuted(grouped_events[i].events, p),
                Len(grouped_events[i].events)) = hours_per_group[i].total

\* C7 as stated: the totals have the keys of the groups, each total is the
\* sum of the durations of its group, and no permutation of a group changes
\* its total.
C7_TotalsOrderFree ==
    (pc = "done")
    => /\ KeysAndSums
       /\ \A i \in DOMAIN grouped_events : OrderFree(i)

\* C7 as amended: the totals have the keys of the groups, each total is the
\* float sum of the durations taken in the order of the group, and a
\* permutation of a group of at most two events does not change its total.
C7_TotalsInGroupOrder ==
    (pc = "done")
    => /\ KeysAndSums
       /\ (grouped_events = <<>>) => (hours_per_group = <<>>)
       /\ \A i \in DOMAIN grouped_events :
            Len(grouped_events[i].events) <= 2 => OrderFree(i)

C7_Witness ==
    /\ pc = "done"
    /\ \E i \in DOMAIN grouped_events :
         LET evs == grouped_events[i].events
         IN  /\ Len(evs) = 2
             /\ evs[1].duration # FloatZero
             /\ evs[2].duration # FloatZero
             /\ evs[1].duration # evs[2].duration
             /\ hours_per_group[i].total = FloatAdd(evs[2].duration, evs[1].duration)

\* C8: for a non-empty event list and a grouping attribute 'category:<rest>'
\* or 'title:<rest>' with a non-empty <rest>, group_events does not fail and
\* groups by the pattern <rest>, everything after the first colon.
C8_RestAfterFirstColon ==
    \A attr \in {"category", "title"} :
        LET attr_str == IF attr = "title" THEN title_str ELSE category_str
        IN  (/\ pc \in {"grouped", "failed", "done"}
             /\ events # <<>>
             /\ StartsWith(grouping_attr, attr_str \o <<":">>)
             /\ Len(grouping_attr) > Len(attr_str) + 1)
            => /\ exception = "none"
               /\ grouped_events =
                    group_by_pattern(events, PatternOf(attr_str), attr)

\* C11: when 'year' decides, with k 'last' and j 'next' tokens, the result is
\* the half-open interval from January 1 of y = anchor year + (j - k) to
\* January 1 of y + 1.
C11_YearHalfOpen ==
    (Parsed /\ Deciding = <<"year">>)
    => LET y == today.year + (Occurrences("next") - Occurrences("last"))
       IN  range = Returned(Datetime(y, 1, 1), Datetime(y + 1, 1, 1))

\* C12: the duration of every event built from a provider item that does
\* not end before it starts is (end - start) in hours, events of 24 hours
\* and longer included.
C12_DurationIsLength ==
    (pc \in {"collected", "grouped", "failed", "done"})
    => \A i \in DOMAIN events :
          events[i].end >= events[i].start
          => events[i].duration = FloatDiv(events[i].end - events[i].start, 3600)

====
